---- MODULE Spec2Model ----
(***************************************************************************)
(* Model of the bitpanda-wrapper client library: the order value objects   *)
(* and their serializer (api/objects/orders.py), the response              *)
(* deserializers (orders.py, deposit.py, withdraw.py, account.py,          *)
(* wallets.py) and the methods of the Account facade (api/__init__.py).    *)
(* Spec is the state machine of the value objects, SpecFacade that of the  *)
(* facade.                                                                 *)
(*                                                                         *)
(* Python values are denoted by strings.  The object None is the token     *)
(* None below, the booleans are the tokens True and False; no str value    *)
(* used as an input equals one of these tokens.  A dict is a function      *)
(* whose DOMAIN is its key set.  A call's outcome is either [val |-> v]    *)
(* (it returned v) or [exc |-> e] (it raised e).                           *)
(***************************************************************************)
EXTENDS Integers, Sequences, FiniteSets, TLC

VARIABLES order, cls, op, args, json, ret, calls, api_key, http, resp

vars == <<order, cls, op, args, json, ret, calls, api_key, http, resp>>

objVars == <<order, cls, json, calls>>
facadeVars == <<api_key, http, resp>>

----------------------------------------------------------------------------
(* Python values *)

None == "<None>"
True == "True"
False == "False"

Return(v) == [val |-> v]
Raise(e) == [exc |-> e]
Raised(r) == "exc" \in DOMAIN r
Returned(r) == "val" \in DOMAIN r

\* d[k] on a dict: KeyError when k is not a key
HasKeys(d, K) == K \subseteq DOMAIN d

\* the dict d without the keys K
Without(d, K) == [k \in (DOMAIN d) \ K |-> d[k]]

----------------------------------------------------------------------------
(* Enumerations of orders.py: a member has a name and a value *)

Member(n, v) == [name |-> n, value |-> v]

BUY == Member("BUY", "BUY")
SELL == Member("SELL", "SELL")
Side == {BUY, SELL}

LIMIT == Member("LIMIT", "LIMIT")
MARKET == Member("MARKET", "MARKET")
STOP == Member("STOP", "STOP")
Type == {LIMIT, MARKET, STOP}

GOOD_TILL_CANCELLED == Member("GOOD_TILL_CANCELLED", "GOOD_TILL_CANCELLED")
GOOD_TILL_TIME == Member("GOOD_TILL_TIME", "GOOD_TILL_TIME")
IMMEDIATE_OR_CANCELLED == Member("IMMEDIATE_OR_CANCELLED", "IMMEDIATE_OR_CANCELLED")
FILL_OR_KILL == Member("FILL_OR_KILL", "FILL_OR_KILL")
NONE == Member("NONE", None)
Time_In_Force == {GOOD_TILL_CANCELLED, GOOD_TILL_TIME, IMMEDIATE_OR_CANCELLED,
                  FILL_OR_KILL, NONE}

\* Enum[s]: lookup of a member by its NAME; KeyError when no member has it
EnumHasName(E, s) == \E m \in E : m.name = s
EnumGetItem(E, s) == CHOOSE m \in E : m.name = s

----------------------------------------------------------------------------
(* Order and its subclasses *)

Order__init__(instrument_code, type, side, amount, price, client_id, time_in_force, expire_after, is_post_only, trigger_price, order_id, account_id, time, filled_amount) ==
    [instrument_code |-> instrument_code,
     type |-> type,
     side |-> side,
     amount |-> amount,
     price |-> price,
     client_id |-> client_id,
     time_in_force |-> time_in_force,
     expire_after |-> expire_after,
     is_post_only |-> is_post_only,
     trigger_price |-> trigger_price,
     order_id |-> order_id,
     account_id |-> account_id,
     time |-> time,
     filled_amount |-> filled_amount]

\* the dictionary with the members' names in place of their values
dictionary_names(self) ==
    [instrument_code |-> self.instrument_code,
     type |-> self.type.name,
     side |-> self.side.name,
     amount |-> self.amount,
     price |-> self.price,
     client_id |-> self.client_id,
     time_in_force |-> self.time_in_force.name,
     expire_after |-> self.expire_after,
     is_post_only |-> self.is_post_only,
     trigger_price |-> self.trigger_price,
     order_id |-> self.order_id,
     account_id |-> self.account_id,
     time |-> self.time,
     filled_amount |-> self.filled_amount]

\* the unfiltered dictionary built by as_dict
dictionary(self) ==
    [instrument_code |-> self.instrument_code,
     type |-> self.type.value,
     side |-> self.side.value,
     amount |-> self.amount,
     price |-> self.price,
     client_id |-> self.client_id,
     time_in_force |-> self.time_in_force.value,
     expire_after |-> self.expire_after,
     is_post_only |-> self.is_post_only,
     trigger_price |-> self.trigger_price,
     order_id |-> self.order_id,
     account_id |-> self.account_id,
     time |-> self.time,
     filled_amount |-> self.filled_amount]

as_dict_unfiltered(self) == dictionary(self)

as_dict_truthy(self) ==
    LET d == dictionary(self)
    IN  [k \in {x \in DOMAIN d : d[x] /= None /\ d[x] /= False} |-> d[k]]

as_dict(self) ==
    LET d == dictionary(self)
    IN  [k \in {x \in DOMAIN d : d[x] /= None} |-> d[k]]

\* the order as as_dict leaves it: the method assigns to no attribute of self
as_dict_self_consumed(self) == [self EXCEPT !.client_id = None]

as_dict_self(self) == self

\* the value of LimitOrder's time_in_force parameter when the caller gives none
LimitOrder_time_in_force_gtc == GOOD_TILL_CANCELLED

LimitOrder_time_in_force_default == NONE

LimitOrder__init__(instrument_code, side, amount, price, client_id, time_in_force, expire_after, is_post_only) ==
    Order__init__(instrument_code, LIMIT, side, amount, price, client_id,
                  time_in_force, expire_after, is_post_only, None,
                  None, None, None, None)

StopOrder__init__(instrument_code, side, amount, price, client_id, trigger_price) ==
    Order__init__(instrument_code, STOP, side, amount, price, client_id,
                  NONE, None, False, trigger_price,
                  None, None, None, None)

MarketOrder__init__(instrument_code, side, amount, price, client_id) ==
    Order__init__(instrument_code, MARKET, side, amount, price, client_id,
                  NONE, None, False, None,
                  None, None, None, None)

SuccessfulOrder__init__(order_id, client_id, account_id, instrument_code, time, side, price, amount, filled_amount, type, time_in_force) ==
    Order__init__(instrument_code, type, side, amount, price, client_id,
                  time_in_force, None, False, None,
                  order_id, account_id, time, filled_amount)

SuccessfulOrderKeys ==
    {"order_id", "client_id", "account_id", "instrument_code", "time", "side",
     "price", "amount", "filled_amount", "type", "time_in_force"}

\* SuccessfulOrder.from_json: every j[k] raises KeyError on a missing key,
\* every Enum[...] raises KeyError on an unknown member name
SuccessfulOrder_from_json(j) ==
    IF ~HasKeys(j, SuccessfulOrderKeys) THEN Raise("KeyError")
    ELSE IF ~EnumHasName(Side, j.side) THEN Raise("KeyError")
    ELSE IF ~EnumHasName(Type, j.type) THEN Raise("KeyError")
    ELSE IF ~EnumHasName(Time_In_Force, j.time_in_force) THEN Raise("KeyError")
    ELSE Return(SuccessfulOrder__init__(
                    j.order_id, j.client_id, j.account_id, j.instrument_code,
                    j.time, EnumGetItem(Side, j.side), j.price, j.amount,
                    j.filled_amount, EnumGetItem(Type, j.type),
                    EnumGetItem(Time_In_Force, j.time_in_force)))

----------------------------------------------------------------------------
(* Deposit (deposit.py), CryptoWithdraw and Recipient (withdraw.py) *)

DepositKeys ==
    {"transaction_id", "account_id", "amount", "type", "funds_source", "time",
     "currency", "fee_amount", "fee_currency"}

Deposit__init__(transaction_id, account_id, amount, type, funds_source, time, currency, fee_amount, fee_currency) ==
    [transaction_id |-> transaction_id,
     account_id |-> account_id,
     amount |-> amount,
     type |-> type,
     funds_source |-> funds_source,
     time |-> time,
     currency |-> currency,
     fee_amount |-> fee_amount,
     fee_currency |-> fee_currency]

\* a lenient reading of the payload: a missing key reads as None (dict.get)
DictGet(j, k) == IF k \in DOMAIN j THEN j[k] ELSE None

Deposit_from_json_lenient(j) ==
    Return(Deposit__init__(DictGet(j, "transaction_id"), DictGet(j, "account_id"),
                           DictGet(j, "amount"), DictGet(j, "type"),
                           DictGet(j, "funds_source"), DictGet(j, "time"),
                           DictGet(j, "currency"), DictGet(j, "fee_amount"),
                           DictGet(j, "fee_currency")))

Deposit_from_json(j) ==
    IF ~HasKeys(j, DepositKeys) THEN Raise("KeyError")
    ELSE Return(Deposit__init__(j.transaction_id, j.account_id, j.amount, j.type,
                                j.funds_source, j.time, j.currency, j.fee_amount,
                                j.fee_currency))

Recipient__init__(address, destination_tag) ==
    [address |-> address, destination_tag |-> destination_tag]

CryptoWithdraw__init__(amount, fee, recipient, transaction_id) ==
    [amount |-> amount, fee |-> fee, recipient |-> recipient,
     transaction_id |-> transaction_id]

CryptoWithdrawKeys == {"amount", "fee", "recipient", "destination_tag", "transaction_id"}

CryptoWithdraw_from_json(j) ==
    IF ~HasKeys(j, CryptoWithdrawKeys) THEN Raise("KeyError")
    ELSE Return(CryptoWithdraw__init__(
                    j.amount, j.fee,
                    Recipient__init__(j.recipient, j.destination_tag),
                    j.transaction_id))

----------------------------------------------------------------------------
(* Account and Wallet (account.py), Wallet and CryptoWallet (wallets.py) *)

\* hash() of a str: equal strings hash equally, distinct strings may collide
hash(s) == CASE s = "acc1" -> 1
             [] s = "acc2" -> 2
             [] s = "BTC" -> 3
             [] s = "EUR" -> 4
             [] OTHER -> 0

Wallet__init__(id, currency_code, change, available, locked, sequence, time) ==
    [id |-> id, currency_code |-> currency_code, change |-> change,
     available |-> available, locked |-> locked, sequence |-> sequence,
     time |-> time]

Wallet__eq__fields(self, other) == self = other

\* isinstance(self, other.__class__) holds for two Wallets
Wallet__eq__(self, other) == self.id = other.id

Wallet__hash__(self) == hash(self.id)

CryptoWallet__init__(id, currency_code, change, available, locked, sequence, time) ==
    [id |-> id, currency_code |-> currency_code, change |-> change,
     available |-> available, locked |-> locked, sequence |-> sequence,
     time |-> time]

CryptoWallet__eq__(self, other) == self.id = other.id

CryptoWallet__hash__(self) == hash(self.id)

WalletKeys ==
    {"account_id", "currency_code", "change", "available", "locked", "sequence",
     "time"}

\* set.add on a set of account.py Wallets: an element that is already in the
\* set (same hash, __eq__ true) is kept and the new one is dropped
WalletSetAdd_replace(S, w) ==
    {x \in S : ~(Wallet__hash__(x) = Wallet__hash__(w) /\ Wallet__eq__(x, w))} \cup {w}

WalletSetAdd(S, w) ==
    IF \E x \in S : Wallet__hash__(x) = Wallet__hash__(w) /\ Wallet__eq__(x, w)
    THEN S ELSE S \cup {w}

CryptoWalletSetAdd(S, w) ==
    IF \E x \in S : CryptoWallet__hash__(x) = CryptoWallet__hash__(w)
                    /\ CryptoWallet__eq__(x, w)
    THEN S ELSE S \cup {w}

\* the loop of Account.from_json over json['balances'], entries 1..n
RECURSIVE AccountWallets(_, _)
AccountWallets(balances, n) ==
    IF n = 0 THEN {}
    ELSE LET w == balances[n]
         IN  WalletSetAdd(AccountWallets(balances, n - 1),
                          Wallet__init__(w.account_id, w.currency_code, w.change,
                                         w.available, w.locked, w.sequence, w.time))

Account__init__(id, wallets) == [id |-> id, wallets |-> wallets]

Account_from_json(j) ==
    IF "balances" \notin DOMAIN j THEN Raise("KeyError")
    ELSE IF \E i \in DOMAIN j.balances : ~HasKeys(j.balances[i], WalletKeys)
         THEN Raise("KeyError")
    ELSE IF "account_id" \notin DOMAIN j THEN Raise("KeyError")
    ELSE Return(Account__init__(j.account_id,
                                AccountWallets(j.balances, Len(j.balances))))

\* the loop of wallets.py Wallet.from_json over json['balances']
RECURSIVE WalletCryptoWallets(_, _)
WalletCryptoWallets(balances, n) ==
    IF n = 0 THEN {}
    ELSE LET w == balances[n]
         IN  CryptoWalletSetAdd(WalletCryptoWallets(balances, n - 1),
                                CryptoWallet__init__(w.account_id, w.currency_code,
                                                     w.change, w.available, w.locked,
                                                     w.sequence, w.time))

WalletsWallet__init__(id, wallets) == [id |-> id, wallets |-> wallets]

WalletsWallet_from_json(j) ==
    IF "balances" \notin DOMAIN j THEN Raise("KeyError")
    ELSE IF \E i \in DOMAIN j.balances : ~HasKeys(j.balances[i], WalletKeys)
         THEN Raise("KeyError")
    ELSE IF "account_id" \notin DOMAIN j THEN Raise("KeyError")
    ELSE Return(WalletsWallet__init__(j.account_id,
                                      WalletCryptoWallets(j.balances, Len(j.balances))))

----------------------------------------------------------------------------
(* Currency, CryptoCurrency and FiatCurrency (currencies.py).  A str given *)
(* as code is the sequence of its characters; the code attribute is the    *)
(* string they spell.  A member of the Type enumeration of currencies.py  *)
(* is the token of its name, which compares with None as the type          *)
(* attribute of a plain Currency requires; the members' values are read    *)
(* nowhere.                                                                *)

CRYPTO == "Type.CRYPTO"
FIAT == "Type.FIAT"
CurrencyType == {CRYPTO, FIAT}

\* str.upper() of one character: a lower-case letter becomes its capital,
\* every other character stays
upper_char(c) == CASE c = "b" -> "B"
                   [] c = "c" -> "C"
                   [] c = "e" -> "E"
                   [] c = "r" -> "R"
                   [] c = "t" -> "T"
                   [] c = "u" -> "U"
                   [] OTHER -> c

RECURSIVE str(_)
str(chars) == IF chars = <<>> THEN "" ELSE Head(chars) \o str(Tail(chars))

upper(chars) == [i \in DOMAIN chars |-> upper_char(chars[i])]

PyBool(b) == IF b THEN True ELSE False

Currency__init__raw(code, precision) ==
    [class |-> "Currency", code |-> str(code), precision |-> precision,
     type |-> None]

Currency__init__(code, precision) ==
    [class |-> "Currency", code |-> str(upper(code)), precision |-> precision,
     type |-> None]

CryptoCurrency__init__(code, precision) ==
    [Currency__init__(code, precision) EXCEPT !.class = "CryptoCurrency",
                                              !.type = CRYPTO]

FiatCurrency__init__(code, precision) ==
    [Currency__init__(code, precision) EXCEPT !.class = "FiatCurrency",
                                              !.type = FIAT]

\* isinstance(self, c) for a class c of currencies.py
isinstance(self, c) == self.class = c \/ c = "Currency"

NotImplemented == "<NotImplemented>"

Currency__eq__(self, other) ==
    IF isinstance(self, other.class)
    THEN PyBool(self.code = other.code /\ self.type = other.type)
    ELSE NotImplemented

Currency__hash__(self) == hash(self.code)

\* self == other: the __eq__ of the right operand is asked first when its
\* class is a proper subclass of the left operand's, then the left
\* operand's, then the other one; when both answer NotImplemented the
\* result is self is other, and the operands, being of classes neither of
\* which is the other's subclass, are two objects
CurrencyEquals(self, other) ==
    LET first == IF other.class /= self.class /\ isinstance(other, self.class)
                 THEN Currency__eq__(other, self)
                 ELSE Currency__eq__(self, other)
        second == IF other.class /= self.class /\ isinstance(other, self.class)
                  THEN Currency__eq__(self, other)
                  ELSE Currency__eq__(other, self)
    IN  IF first /= NotImplemented THEN first
        ELSE IF second /= NotImplemented THEN second
        ELSE False

----------------------------------------------------------------------------
(* Inputs *)

\* most keys a generated payload lacks
MaxMissing == 2
\* most entries of a generated balances list
MaxBalances == 2
\* as_dict calls made on one order
MaxCalls == 2

NoOrder == [instrument_code |-> None]

\* the Limit order of the documentation's example
ExampleOrder ==
    Order__init__("BTC_EUR", LIMIT, BUY, "1.5", "30000", None, GOOD_TILL_CANCELLED,
                  None, False, None, None, None, None, None)

InstrumentCodes == {"BTC_EUR"}
Amounts == {"1.5"}
Prices == {None, "30000"}
ClientIds == {None, "c1"}
ExpireAfters == {None, "2030-01-01T00:00Z"}
Booleans == {True, False}
TriggerPrices == {None, "29000"}
OrderIds == {None, "o1"}
AccountIds == {None, "acc1"}
Times == {None, "2020-01-01T00:00Z"}
FilledAmounts == {None, "0.5"}

\* strings a response may carry in its enum-valued keys
SideStrings == {"BUY", "SELL", "HOLD"}
TypeStrings == {"LIMIT", "MARKET", "STOP", "SWAP"}
TimeInForceStrings ==
    {"GOOD_TILL_CANCELLED", "GOOD_TILL_TIME", "IMMEDIATE_OR_CANCELLED",
     "FILL_OR_KILL", "NONE", "DAY"}

KeySetsUpTo(K, n) == {M \in SUBSET K : Cardinality(M) <= n}

SuccessfulOrderJson(side, type, tif) ==
    [order_id |-> "o1", client_id |-> "c1", account_id |-> "acc1",
     instrument_code |-> "BTC_EUR", time |-> "2020-01-01T00:00Z", side |-> side,
     price |-> "30000", amount |-> "1.5", filled_amount |-> "0.5", type |-> type,
     time_in_force |-> tif]

SuccessfulOrderPayloads ==
    {Without(SuccessfulOrderJson(s, t, f), M) :
        s \in SideStrings, t \in TypeStrings, f \in TimeInForceStrings,
        M \in KeySetsUpTo(SuccessfulOrderKeys, MaxMissing)}

DepositJson(amount) ==
    [transaction_id |-> "t1", account_id |-> "acc1", amount |-> amount,
     type |-> "CRYPTO", funds_source |-> "INTERNAL", time |-> "2020-01-01T00:00Z",
     currency |-> "BTC", fee_amount |-> "0.0", fee_currency |-> "BTC"]

DepositPayloads ==
    {Without(DepositJson(a), M) :
        a \in {"1.5", "2"}, M \in KeySetsUpTo(DepositKeys, MaxMissing)}

CryptoWithdrawJson(tag) ==
    [amount |-> "1.5", fee |-> "0.0", recipient |-> "addr1",
     destination_tag |-> tag, transaction_id |-> "t1"]

CryptoWithdrawPayloads ==
    {Without(CryptoWithdrawJson(g), M) :
        g \in {"", "tag1"}, M \in KeySetsUpTo(CryptoWithdrawKeys, MaxMissing)}

BalanceJson(id, currency_code, available) ==
    [account_id |-> id, currency_code |-> currency_code, change |-> "0.0",
     available |-> available, locked |-> "0.0", sequence |-> "1",
     time |-> "2020-01-01T00:00Z"]

\* complete balances entries, and entries lacking one key
BalanceEntries ==
    {BalanceJson(i, c, a) : i \in {"acc1", "acc2"}, c \in {"BTC", "EUR"},
                            a \in {"0.0", "1.5"}}
    \cup {Without(BalanceJson("acc1", "BTC", "1.5"), {k}) : k \in WalletKeys}

BalanceLists ==
    UNION {[1..n -> BalanceEntries] : n \in 0..MaxBalances}

AccountPayloads ==
    {Without([account_id |-> "acc1", balances |-> b], M) :
        b \in BalanceLists, M \in SUBSET {"account_id", "balances"}}

----------------------------------------------------------------------------
(* State machine of the value objects: op is the last call, order the      *)
(* Order it constructed or was applied to (cls its class), args what is    *)
(* recorded of the call's arguments, json the payload given to the last    *)
(* from_json, ret the call's outcome, calls the number of as_dict calls    *)
(* made on the order so far.  The                                          *)
(* objects are values without shared state, so a behaviour follows one     *)
(* object: it is constructed (or parsed) in the first step and the later   *)
(* steps are the calls made on it.                                         *)

\* the Account facades constructed, and the keys given to Account.__init__
Instances == {"account1", "account2"}
ApiKeys == {"key1", "key2"}

NoArgs == [self |-> None]

Init ==
    /\ order = NoOrder
    /\ cls = "none"
    /\ op = "none"
    /\ json = None
    /\ args = NoArgs
    /\ ret = Return(None)
    /\ calls = 0
    /\ api_key \in [Instances -> ApiKeys]
    /\ http = <<>>
    /\ resp = Return(None)

ConstructedWith(c, o, a) ==
    /\ order' = o
    /\ cls' = c
    /\ op' = "__init__"
    /\ args' = a
    /\ json' = None
    /\ ret' = Return(None)
    /\ calls' = 0
    /\ UNCHANGED facadeVars

Constructed(c, o) == ConstructedWith(c, o, NoArgs)

NewOrder ==
    /\ op = "none"
    /\ \E ic \in InstrumentCodes, t \in Type, s \in Side, a \in Amounts, p \in Prices,
       c \in ClientIds, f \in Time_In_Force, e \in ExpireAfters, b \in Booleans,
       g \in TriggerPrices, oi \in OrderIds, ai \in AccountIds, ti \in Times,
       fa \in FilledAmounts :
        Constructed("Order",
                    Order__init__(ic, t, s, a, p, c, f, e, b, g, oi, ai, ti, fa))

NewLimitOrder ==
    /\ op = "none"
    /\ \E ic \in InstrumentCodes, s \in Side, a \in Amounts, p \in Prices,
       c \in ClientIds, f \in Time_In_Force, e \in ExpireAfters, b \in Booleans,
       given \in BOOLEAN :
        ConstructedWith("LimitOrder",
                        LimitOrder__init__(ic, s, a, p, c,
                                           IF given THEN f
                                           ELSE LimitOrder_time_in_force_default,
                                           e, b),
                        [self |-> None, time_in_force_given |-> given])

NewStopOrder ==
    /\ op = "none"
    /\ \E ic \in InstrumentCodes, s \in Side, a \in Amounts, p \in Prices,
       c \in ClientIds, g \in TriggerPrices :
        Constructed("StopOrder", StopOrder__init__(ic, s, a, p, c, g))

NewMarketOrder ==
    /\ op = "none"
    /\ \E ic \in InstrumentCodes, s \in Side, a \in Amounts, p \in Prices,
       c \in ClientIds :
        Constructed("MarketOrder", MarketOrder__init__(ic, s, a, p, c))

NewSuccessfulOrder ==
    /\ op = "none"
    /\ \E oi \in OrderIds, c \in ClientIds, ai \in AccountIds, ic \in InstrumentCodes,
       ti \in Times, s \in Side, p \in Prices, a \in Amounts, fa \in FilledAmounts,
       t \in Type, f \in Time_In_Force :
        Constructed("SuccessfulOrder",
                    SuccessfulOrder__init__(oi, c, ai, ic, ti, s, p, a, fa, t, f))

\* order.as_dict()
AsDict ==
    /\ cls /= "none"
    /\ calls < MaxCalls
    /\ op' = "as_dict"
    /\ ret' = Return(as_dict(order))
    /\ order' = as_dict_self(order)
    /\ calls' = calls + 1
    /\ json' = None
    /\ UNCHANGED <<cls, args>>
    /\ UNCHANGED facadeVars

\* SuccessfulOrder.from_json(s.as_dict()) for the SuccessfulOrder s held in
\* order, whose as_dict() was just returned
RoundTrip ==
    /\ cls = "SuccessfulOrder"
    /\ op = "as_dict"
    /\ op' = "SuccessfulOrder.from_json"
    /\ json' = ret.val
    /\ ret' = SuccessfulOrder_from_json(ret.val)
    /\ UNCHANGED <<order, cls, args, calls>>
    /\ UNCHANGED facadeVars

FromJson(name, j, r) ==
    /\ op' = name
    /\ json' = j
    /\ ret' = r
    /\ order' = NoOrder
    /\ cls' = "none"
    /\ args' = NoArgs
    /\ calls' = 0
    /\ UNCHANGED facadeVars

SuccessfulOrderFromJson ==
    /\ op = "none"
    /\ \E j \in SuccessfulOrderPayloads :
        FromJson("SuccessfulOrder.from_json", j, SuccessfulOrder_from_json(j))

DepositFromJson ==
    /\ op = "none"
    /\ \E j \in DepositPayloads :
        FromJson("Deposit.from_json", j, Deposit_from_json(j))

CryptoWithdrawFromJson ==
    /\ op = "none"
    /\ \E j \in CryptoWithdrawPayloads :
        FromJson("CryptoWithdraw.from_json", j, CryptoWithdraw_from_json(j))

AccountFromJson ==
    /\ op = "none"
    /\ \E j \in AccountPayloads :
        FromJson("Account.from_json", j, Account_from_json(j))

WalletFromJson ==
    /\ op = "none"
    /\ \E j \in AccountPayloads :
        FromJson("Wallet.from_json", j, WalletsWallet_from_json(j))

WalletObjects ==
    {Wallet__init__(i, c, "0.0", a, "0.0", "1", "2020-01-01T00:00Z") :
        i \in {"acc1", "acc2"}, c \in {"BTC", "EUR"}, a \in {"0.0", "1.5"}}

CryptoWalletObjects ==
    {CryptoWallet__init__(i, c, "0.0", a, "0.0", "1", "2020-01-01T00:00Z") :
        i \in {"acc1", "acc2"}, c \in {"BTC", "EUR"}, a \in {"0.0", "1.5"}}

Compared(name, self, other, eq, hash_self, hash_other) ==
    /\ op' = name
    /\ args' = [self |-> self, other |-> other]
    /\ ret' = Return([eq |-> PyBool(eq), hash_self |-> hash_self,
                      hash_other |-> hash_other])
    /\ order' = NoOrder
    /\ cls' = "none"
    /\ json' = None
    /\ calls' = 0
    /\ UNCHANGED facadeVars

\* self == other, hash(self) and hash(other) for two account.py Wallets
WalletCompare ==
    /\ op = "none"
    /\ \E self \in WalletObjects, other \in WalletObjects :
          Compared("Wallet.__eq__", self, other, Wallet__eq__(self, other),
                   Wallet__hash__(self), Wallet__hash__(other))

\* the same for two wallets.py CryptoWallets
CryptoWalletCompare ==
    /\ op = "none"
    /\ \E self \in CryptoWalletObjects, other \in CryptoWalletObjects :
          Compared("CryptoWallet.__eq__", self, other, CryptoWallet__eq__(self, other),
                   CryptoWallet__hash__(self), CryptoWallet__hash__(other))

\* the codes and precisions given to the constructors of currencies.py
CurrencyCodes ==
    {<<"b", "t", "c">>, <<"B", "t", "c">>, <<"B", "T", "C">>,
     <<"e", "u", "r">>, <<"E", "U", "R">>, <<"c", "1">>, <<"C", "1">>}
Precisions == {2, 8}
CurrencyClasses == {"Currency", "CryptoCurrency", "FiatCurrency"}

\* c(code, precision) for a class c of currencies.py
NewCurrency(c, code, precision) ==
    CASE c = "Currency" -> Currency__init__(code, precision)
      [] c = "CryptoCurrency" -> CryptoCurrency__init__(code, precision)
      [] c = "FiatCurrency" -> FiatCurrency__init__(code, precision)

\* self == other, hash(self) and hash(other) for two currencies constructed
\* from the codes recorded in args
CurrencyCompare ==
    /\ op = "none"
    /\ \E c1 \in CurrencyClasses, c2 \in CurrencyClasses,
          code1 \in CurrencyCodes, code2 \in CurrencyCodes,
          p1 \in Precisions, p2 \in Precisions :
          LET self == NewCurrency(c1, code1, p1)
              other == NewCurrency(c2, code2, p2)
          IN  /\ op' = "Currency.__eq__"
              /\ args' = [self |-> self, other |-> other,
                          self_code |-> code1, other_code |-> code2]
              /\ ret' = Return([eq |-> CurrencyEquals(self, other),
                                hash_self |-> Currency__hash__(self),
                                hash_other |-> Currency__hash__(other)])
              /\ order' = NoOrder
              /\ cls' = "none"
              /\ json' = None
              /\ calls' = 0
              /\ UNCHANGED facadeVars

Next ==
    \/ NewOrder
    \/ NewLimitOrder
    \/ NewStopOrder
    \/ NewMarketOrder
    \/ NewSuccessfulOrder
    \/ AsDict
    \/ RoundTrip
    \/ SuccessfulOrderFromJson
    \/ DepositFromJson
    \/ CryptoWithdrawFromJson
    \/ AccountFromJson
    \/ WalletFromJson
    \/ WalletCompare
    \/ CryptoWalletCompare
    \/ CurrencyCompare

Spec == Init /\ [][Next]_vars

----------------------------------------------------------------------------
(* The Account facade (api/__init__.py): api_key is the key given to       *)
(* Account.__init__, http the requests handed to the HTTP collaborator so  *)
(* far, oldest first.  The collaborator answers a request with a response  *)
(* (status code and decoded JSON body) or raises.                          *)

\* most requests in a behaviour
MaxRequests == 2
\* most ids given to one close_all_orders call
MaxIds == 2

BASE_URL == "https://api.exchange.bitpanda.com/public/v1"

headers(key) ==
    ("Content-Type" :> "application/json")
    @@ ("Accept" :> "application/json")
    @@ ("Authorization" :> "Bearer " \o key)

Request(method, url, hdrs, params) ==
    [method |-> method, url |-> url, headers |-> hdrs, params |-> params]

Response(status_code, body) == [status_code |-> status_code, body |-> body]

ErrorJson == [error |-> "BAD_REQUEST"]

\* what the collaborator may do with a request whose success body is ok
Outcomes(ok) ==
    {Return(Response(200, ok)), Return(Response(400, ErrorJson)),
     Raise("ConnectionError")}

\* a call of a facade method on the instance self that issues its one request
\* to the collaborator, gets outcome from it and ends with result
Call_retry(name, self, a, request, outcome, result) ==
    /\ Len(http) < MaxRequests
    /\ http' = IF Raised(outcome) \/ outcome.val.status_code /= 200
               THEN Append(Append(http, request), request)
               ELSE Append(http, request)
    /\ op' = name
    /\ args' = a @@ [self |-> self]
    /\ resp' = outcome
    /\ ret' = result
    /\ UNCHANGED <<api_key, order, cls, json, calls>>

Call_shared_key(name, self, a, request, outcome, result) ==
    /\ Len(http) < MaxRequests
    /\ http' = Append(http, request)
    /\ op' = name
    /\ args' = a @@ [self |-> self]
    /\ resp' = outcome
    /\ ret' = result
    /\ api_key' = [i \in Instances |-> api_key[self]]
    /\ UNCHANGED <<order, cls, json, calls>>

Call(name, self, a, request, outcome, result) ==
    /\ Len(http) < MaxRequests
    /\ http' = Append(http, request)
    /\ op' = name
    /\ args' = a @@ [self |-> self]
    /\ resp' = outcome
    /\ ret' = result
    /\ UNCHANGED <<api_key, order, cls, json, calls>>

\* the headers of get_deposit_address, get_deposit_fiat and get_fees
headers_accept(key) ==
    ("Accept" :> "application/json") @@ ("Authorization" :> "Bearer " \o key)

NoParams == [x \in {} |-> None]

\* return response.json(), unless the collaborator raised
ResponseJson(outcome) ==
    IF Raised(outcome) THEN outcome ELSE Return(outcome.val.body)

\* return response.json()[k]: KeyError when the body has no key k
ResponseJsonItem(outcome, k) ==
    IF Raised(outcome) THEN outcome
    ELSE IF k \in DOMAIN outcome.val.body THEN Return(outcome.val.body[k])
    ELSE Raise("KeyError")

\* print(response.json()) and fall off the end of the method
ResponsePrinted(outcome) ==
    IF Raised(outcome) THEN outcome ELSE Return(None)

\* return Wallet.from_json(response.json())
WalletOfResponse(outcome) ==
    IF Raised(outcome) THEN outcome ELSE WalletsWallet_from_json(outcome.val.body)

get_account_balances(self, outcome) ==
    Call("get_account_balances", self, [none |-> None],
         Request("GET", BASE_URL \o "/account/balances", headers(api_key[self]), NoParams),
         outcome, WalletOfResponse(outcome))

deposit_crypto(self, curr_code, outcome) ==
    Call("deposit_crypto", self, [curr_code |-> curr_code],
         Request("POST", BASE_URL \o "/account/deposit/crypto", headers(api_key[self]),
                 [currency |-> curr_code]),
         outcome, ResponsePrinted(outcome))

WithdrawCryptoBody__init__(curr_code, amount, recipient) ==
    [currency_code |-> curr_code, amount |-> amount, recipient |-> recipient]

WithdrawCryptoBody_to_dict(self) ==
    [currency |-> self.currency_code,
     amount |-> self.amount,
     recipient |-> [address |-> self.recipient.address,
                    destination_tag |-> self.recipient.destination_tag]]

withdraw_crypto(self, withdraw_crypto_body, outcome) ==
    Call("withdraw_crypto", self, [withdraw_crypto_body |-> withdraw_crypto_body],
         Request("POST", BASE_URL \o "/account/withdraw/crypto", headers(api_key[self]),
                 WithdrawCryptoBody_to_dict(withdraw_crypto_body)),
         outcome, ResponsePrinted(outcome))

\* the address of the response, None when the response says not enabled
DepositAddressOfResponse(outcome) ==
    IF Raised(outcome) THEN outcome
    ELSE IF "enabled" \notin DOMAIN outcome.val.body THEN Raise("KeyError")
    ELSE IF outcome.val.body.enabled = False THEN Return(None)
    ELSE IF "address" \notin DOMAIN outcome.val.body THEN Raise("KeyError")
    ELSE Return(outcome.val.body.address)

get_deposit_address(self, curr_code, outcome) ==
    Call("get_deposit_address", self, [curr_code |-> curr_code],
         Request("GET", BASE_URL \o "/account/deposit/crypto/" \o curr_code,
                 headers_accept(api_key[self]), [currency_code |-> curr_code]),
         outcome, DepositAddressOfResponse(outcome))

EURO == Member("EURO", "EUR")
FRANC == Member("FRANC", "CHF")
POUND == Member("POUND", "GBP")
Fiat == {EURO, FRANC, POUND}

get_deposit_fiat(self, fiat, outcome) ==
    Call("get_deposit_fiat", self, [fiat |-> fiat],
         Request("GET", BASE_URL \o "/account/deposit/fiat/" \o fiat.value,
                 headers_accept(api_key[self]), NoParams),
         outcome, ResponseJson(outcome))

WithdrawFiatBody__init__(curr_code, amount, payout_account_id) ==
    [currency_code |-> curr_code, amount |-> amount,
     payout_account_id |-> payout_account_id]

WithdrawFiatBody_to_dict(self) ==
    [currency |-> self.currency_code,
     amount |-> self.amount,
     payout_account_id |-> self.payout_account_id]

withdraw_fiat(self, withdraw_fiat_body, outcome) ==
    Call("withdraw_fiat", self, [withdraw_fiat_body |-> withdraw_fiat_body],
         Request("POST", BASE_URL \o "/account/withdraw/fiat", headers(api_key[self]),
                 WithdrawFiatBody_to_dict(withdraw_fiat_body)),
         outcome, ResponseJsonItem(outcome, "transaction_id"))

\* the params of the four history listings
HistoryParams(start, end, currency_code, max_page_size, cursor) ==
    ("from" :> start) @@ ("to" :> end) @@ ("currency_code" :> currency_code)
    @@ ("max_page_size" :> max_page_size) @@ ("cursor" :> cursor)

HistoryArgs(start, end, currency_code, max_page_size, cursor) ==
    [start |-> start, end |-> end, currency_code |-> currency_code,
     max_page_size |-> max_page_size, cursor |-> cursor]

get_account_deposits(self, start, end, currency_code, max_page_size, cursor, outcome) ==
    Call("get_account_deposits", self,
         HistoryArgs(start, end, currency_code, max_page_size, cursor),
         Request("GET", BASE_URL \o "/account/deposits", headers(api_key[self]),
                 HistoryParams(start, end, currency_code, max_page_size, cursor)),
         outcome, ResponseJsonItem(outcome, "deposit_history"))

get_account_deposits_from_bitpanda(self, start, end, currency_code, max_page_size, cursor, outcome) ==
    Call("get_account_deposits_from_bitpanda", self,
         HistoryArgs(start, end, currency_code, max_page_size, cursor),
         Request("GET", BASE_URL \o "/account/deposits/bitpanda", headers(api_key[self]),
                 HistoryParams(start, end, currency_code, max_page_size, cursor)),
         outcome, ResponseJsonItem(outcome, "deposit_history"))

get_account_withdrawals(self, start, end, currency_code, max_page_size, cursor, outcome) ==
    Call("get_account_withdrawals", self,
         HistoryArgs(start, end, currency_code, max_page_size, cursor),
         Request("GET", BASE_URL \o "/account/withdrawals", headers(api_key[self]),
                 HistoryParams(start, end, currency_code, max_page_size, cursor)),
         outcome, ResponseJsonItem(outcome, "withdrawal_history"))

get_account_withdrawals_from_bitpanda(self, start, end, currency_code, max_page_size, cursor, outcome) ==
    Call("get_account_withdrawals_from_bitpanda", self,
         HistoryArgs(start, end, currency_code, max_page_size, cursor),
         Request("GET", BASE_URL \o "/account/withdrawals/bitpanda", headers(api_key[self]),
                 HistoryParams(start, end, currency_code, max_page_size, cursor)),
         outcome, ResponseJsonItem(outcome, "withdrawal_history"))

get_fees(self, outcome) ==
    Call("get_fees", self, [none |-> None],
         Request("GET", BASE_URL \o "/account/fees", headers_accept(api_key[self]),
                 NoParams),
         outcome, ResponseJson(outcome))

toggle_best_fee_collection(self, collect_fees_in_best, outcome) ==
    Call("toggle_best_fee_collection", self,
         [collect_fees_in_best |-> collect_fees_in_best],
         Request("POST", BASE_URL \o "/account/deposit/crypto", headers(api_key[self]),
                 [collect_fees_in_best |-> collect_fees_in_best]),
         outcome, ResponseJson(outcome))

get_orders(self, start, end, instrument_code, with_cancelled_and_rejected, with_just_filled_inactive, with_just_orders, max_page_size, cursor, outcome) ==
    LET params ==
            ("from" :> start) @@ ("to" :> end)
            @@ ("instrument_code" :> instrument_code)
            @@ ("with_cancelled_and_rejected" :> with_cancelled_and_rejected)
            @@ ("with_just_filled_inactive" :> with_just_filled_inactive)
            @@ ("with_just_orders" :> with_just_orders)
            @@ ("max_page_size" :> max_page_size)
            @@ ("cursor" :> cursor)
    IN  Call("get_orders", self, [instrument_code |-> instrument_code, cursor |-> cursor],
             Request("GET", BASE_URL \o "/account/orders", headers(api_key[self]), params),
             outcome, ResponseJson(outcome))

\* return SuccessfulOrder.from_json(response.json()), unless the collaborator
\* raised
SuccessfulOrderOfResponse(outcome) ==
    IF Raised(outcome) THEN outcome ELSE SuccessfulOrder_from_json(outcome.val.body)

create_order(self, o, outcome) ==
    Call("create_order", self, [order |-> o],
         Request("GET", BASE_URL \o "/account/orders", headers(api_key[self]), as_dict(o)),
         outcome, SuccessfulOrderOfResponse(outcome))

close_all_orders(self, instrument_code, ids, outcome) ==
    LET params == [instrument_code |-> instrument_code, ids |-> ids]
    IN  Call("close_all_orders", self, [instrument_code |-> instrument_code, ids |-> ids],
             Request("GET", BASE_URL \o "/account/orders", headers(api_key[self]), params),
             outcome, ResponseJson(outcome))

----------------------------------------------------------------------------
(* Calls of the facade, with their arguments and the collaborator's answer *)

OrderIdLists == UNION {[1..n -> {"a"}] : n \in 0..MaxIds}

FacadeOrders ==
    {ExampleOrder, MarketOrder__init__("BTC_EUR", SELL, "1.5", None, "c1")}

Cursors == {None, "cur1"}

OrderHistoryJson == [order_history |-> <<>>, max_page_size |-> "100", cursor |-> "cur2"]

DepositHistoryJson ==
    [deposit_history |-> <<DepositJson("1.5")>>, max_page_size |-> "100",
     cursor |-> "cur2"]

WithdrawalHistoryJson ==
    [withdrawal_history |-> <<CryptoWithdrawJson("")>>, max_page_size |-> "100",
     cursor |-> "cur2"]

BalancesJson ==
    [account_id |-> "acc1", balances |-> <<BalanceJson("acc1", "BTC", "1.5")>>]

FeesJson == [account_id |-> "acc1", collect_fees_in_best |-> True]

\* the arguments given to withdraw_crypto, withdraw_fiat,
\* toggle_best_fee_collection and close_all_orders
ExampleWithdrawCryptoBody ==
    WithdrawCryptoBody__init__("BTC", "1.5", Recipient__init__("addr1", ""))
ExampleWithdrawFiatBody == WithdrawFiatBody__init__("EUR", "1.5", "p1")
CollectFeesInBest == {True}
CloseInstrumentCodes == {None, "BTC_EUR"}

\* the collaborator's possible answers to the request of each method
BalancesOutcomes == Outcomes(BalancesJson)
DepositCryptoOutcomes == Outcomes([address |-> "addr1"])
WithdrawCryptoOutcomes == Outcomes(CryptoWithdrawJson(""))
DepositAddressOutcomes ==
    Outcomes([enabled |-> True, address |-> "addr1"])
    \cup {Return(Response(200, [enabled |-> False]))}
DepositFiatOutcomes == Outcomes([iban |-> "AT00"])
WithdrawFiatOutcomes == Outcomes([transaction_id |-> "t1"])
DepositHistoryOutcomes == Outcomes(DepositHistoryJson)
WithdrawalHistoryOutcomes == Outcomes(WithdrawalHistoryJson)
FeesOutcomes == Outcomes(FeesJson)
OrderHistoryOutcomes == Outcomes(OrderHistoryJson)
CreateOrderOutcomes ==
    Outcomes(SuccessfulOrderJson("BUY", "LIMIT", "GOOD_TILL_CANCELLED"))
CloseAllOrdersOutcomes == Outcomes(<<"a">>)

GetAccountBalances ==
    \E self \in Instances, outcome \in BalancesOutcomes :
        get_account_balances(self, outcome)

DepositCrypto ==
    \E self \in Instances, outcome \in DepositCryptoOutcomes :
        deposit_crypto(self, "BTC", outcome)

WithdrawCrypto ==
    \E self \in Instances, outcome \in WithdrawCryptoOutcomes :
        withdraw_crypto(self, ExampleWithdrawCryptoBody, outcome)

GetDepositAddress ==
    \E self \in Instances,
       outcome \in DepositAddressOutcomes :
        get_deposit_address(self, "BTC", outcome)

GetDepositFiat ==
    \E self \in Instances, outcome \in DepositFiatOutcomes :
        get_deposit_fiat(self, EURO, outcome)

WithdrawFiat ==
    \E self \in Instances, outcome \in WithdrawFiatOutcomes :
        withdraw_fiat(self, ExampleWithdrawFiatBody, outcome)

GetAccountDeposits ==
    \E self \in Instances, cursor \in Cursors, outcome \in DepositHistoryOutcomes :
        get_account_deposits(self, None, None, None, None, cursor, outcome)

GetAccountDepositsFromBitpanda ==
    \E self \in Instances, cursor \in Cursors, outcome \in DepositHistoryOutcomes :
        get_account_deposits_from_bitpanda(self, None, None, None, None, cursor, outcome)

GetAccountWithdrawals ==
    \E self \in Instances, cursor \in Cursors,
       outcome \in WithdrawalHistoryOutcomes :
        get_account_withdrawals(self, None, None, None, None, cursor, outcome)

GetAccountWithdrawalsFromBitpanda ==
    \E self \in Instances, cursor \in Cursors,
       outcome \in WithdrawalHistoryOutcomes :
        get_account_withdrawals_from_bitpanda(self, None, None, None, None, cursor,
                                              outcome)

GetFees ==
    \E self \in Instances, outcome \in FeesOutcomes :
        get_fees(self, outcome)

ToggleBestFeeCollection ==
    \E self \in Instances, b \in CollectFeesInBest, outcome \in FeesOutcomes :
        toggle_best_fee_collection(self, b, outcome)

GetOrders ==
    \E self \in Instances, cursor \in Cursors, outcome \in OrderHistoryOutcomes :
        get_orders(self, None, None, None, None, None, None, None, cursor, outcome)

CreateOrder ==
    \E self \in Instances, o \in FacadeOrders,
       outcome \in CreateOrderOutcomes :
        create_order(self, o, outcome)

CloseAllOrders ==
    \E self \in Instances, ic \in CloseInstrumentCodes, ids \in OrderIdLists,
       outcome \in CloseAllOrdersOutcomes :
        close_all_orders(self, ic, ids, outcome)

NextFacade ==
    \/ GetAccountBalances
    \/ DepositCrypto
    \/ WithdrawCrypto
    \/ GetDepositAddress
    \/ GetDepositFiat
    \/ WithdrawFiat
    \/ GetAccountDeposits
    \/ GetAccountDepositsFromBitpanda
    \/ GetAccountWithdrawals
    \/ GetAccountWithdrawalsFromBitpanda
    \/ GetFees
    \/ ToggleBestFeeCollection
    \/ GetOrders
    \/ CreateOrder
    \/ CloseAllOrders

SpecFacade == Init /\ [][NextFacade]_vars

----------------------------------------------------------------------------
(* Properties of the order serializer *)

RequestClasses == {"LimitOrder", "MarketOrder", "StopOrder"}
ServerKeys == {"order_id", "account_id", "time", "filled_amount"}
OptionalKeys ==
    {"price", "client_id", "expire_after", "trigger_price", "order_id",
     "account_id", "time", "filled_amount"}

\* C1: a Limit order with time_in_force GoodTillTime and no expire_after fails
\* to serialize; with an expire_after its map carries expire_after with that
\* value.
C1_GoodTillTimeNeedsExpireAfter ==
    (op = "as_dict" /\ cls = "LimitOrder" /\ order.time_in_force = GOOD_TILL_TIME)
    => IF order.expire_after = None
       THEN Raised(ret)
       ELSE /\ Returned(ret)
            /\ "expire_after" \in DOMAIN ret.val
            /\ ret.val.expire_after = order.expire_after

\* C2: the map of a Market order never has the key price, whatever price was
\* given at construction.
C2_MarketOrderHasNoPrice ==
    (op = "as_dict" /\ cls = "MarketOrder")
    => (Returned(ret) /\ "price" \notin DOMAIN ret.val)

\* C3: no map is produced for a Stop order without trigger_price: its
\* serialization fails.
C3_StopOrderNeedsTriggerPrice ==
    (op = "as_dict" /\ cls = "StopOrder" /\ order.trigger_price = None)
    => Raised(ret)

\* C4: the map of a request order has only the keys of its variant: no
\* time_in_force, expire_after or is_post_only for Market and Stop, no
\* trigger_price for Limit and Market, no server-assigned key for any.
C4_OnlyApplicableKeys ==
    (op = "as_dict" /\ cls \in RequestClasses)
    => /\ Returned(ret)
       /\ order.type \in {MARKET, STOP}
            => DOMAIN ret.val \cap {"time_in_force", "expire_after", "is_post_only"} = {}
       /\ order.type \in {LIMIT, MARKET} => "trigger_price" \notin DOMAIN ret.val
       /\ DOMAIN ret.val \cap ServerKeys = {}

\* C5: no key of the map returned by as_dict is bound to None: an unset
\* optional field, the unset time_in_force included, is absent from the map.
C5_NoNullValues ==
    op = "as_dict"
    => /\ Returned(ret)
       /\ \A k \in DOMAIN ret.val : ret.val[k] /= None
       /\ \A k \in OptionalKeys : order[k] = None => k \notin DOMAIN ret.val
       /\ order.time_in_force = NONE => "time_in_force" \notin DOMAIN ret.val

C5_Witness ==
    /\ op = "as_dict"
    /\ order.time_in_force = NONE
    /\ order.price = None
    /\ order.order_id = None
    /\ order.client_id /= None
    /\ "client_id" \in DOMAIN ret.val

\* C6 as stated: the example Limit order serializes to exactly six keys.
C6_ExampleSixKeys ==
    (op = "as_dict" /\ order = ExampleOrder)
    => ret = Return([instrument_code |-> "BTC_EUR", side |-> "BUY", type |-> "LIMIT",
                     amount |-> "1.5", price |-> "30000",
                     time_in_force |-> "GOOD_TILL_CANCELLED"])

\* C6 amended: the example Limit order serializes to exactly the six keys of
\* the example and is_post_only bound to False, seven keys and no others.
C6_ExampleSevenKeys ==
    (op = "as_dict" /\ order = ExampleOrder)
    => ret = Return([instrument_code |-> "BTC_EUR", side |-> "BUY", type |-> "LIMIT",
                     amount |-> "1.5", price |-> "30000",
                     time_in_force |-> "GOOD_TILL_CANCELLED",
                     is_post_only |-> False])

C6_Witness ==
    /\ op = "as_dict"
    /\ order = ExampleOrder
    /\ Cardinality(DOMAIN ret.val) = 7

----------------------------------------------------------------------------
(* Properties of the deserializers *)

\* C7: SuccessfulOrder.from_json(s.as_dict()) returns an order equal to s field
\* by field, for every SuccessfulOrder s.
C7_RoundTrip ==
    (op = "SuccessfulOrder.from_json" /\ cls = "SuccessfulOrder")
    => (Returned(ret) /\ ret.val = order)

SideWire == {"BUY", "SELL"}
TypeWire == {"LIMIT", "MARKET", "STOP"}
TimeInForceWire ==
    {"GOOD_TILL_CANCELLED", "GOOD_TILL_TIME", "IMMEDIATE_OR_CANCELLED", "FILL_OR_KILL"}

\* C8: SuccessfulOrder.from_json fails for every payload whose side, type or
\* time_in_force is not a wire value, and never returns an order whose enum
\* field carries a null wire value.
C8_UnknownEnumFails ==
    op = "SuccessfulOrder.from_json"
    => /\ ("side" \in DOMAIN json /\ json.side \notin SideWire) => Raised(ret)
       /\ ("type" \in DOMAIN json /\ json.type \notin TypeWire) => Raised(ret)
       /\ ("time_in_force" \in DOMAIN json /\ json.time_in_force \notin TimeInForceWire)
            => Raised(ret)
       /\ Returned(ret)
            => /\ ret.val.side \in Side /\ ret.val.side.value /= None
               /\ ret.val.type \in Type /\ ret.val.type.value /= None
               /\ ret.val.time_in_force \in Time_In_Force
               /\ ret.val.time_in_force.value /= None

\* the required keys of an Account / Wallet payload are all there
BalancesComplete(j) ==
    /\ HasKeys(j, {"account_id", "balances"})
    /\ \A i \in DOMAIN j.balances : HasKeys(j.balances[i], WalletKeys)

\* every wallet of the returned set is some entry of the payload, read whole
WalletsPopulated(wallets, balances) ==
    /\ \A w \in wallets :
          \E i \in DOMAIN balances :
              /\ w.id = balances[i].account_id
              /\ \A k \in WalletKeys \ {"account_id"} : w[k] = balances[i][k]
    /\ \A i \in DOMAIN balances : \E w \in wallets : w.id = balances[i].account_id

\* C9: a deserializer given a payload that lacks a required key fails, and an
\* object it returns has every field filled from the payload.
C9_AllOrNothing ==
    /\ op = "Deposit.from_json"
         => /\ ~HasKeys(json, DepositKeys) => Raised(ret)
            /\ Returned(ret) => \A k \in DepositKeys : ret.val[k] = json[k]
    /\ op = "CryptoWithdraw.from_json"
         => /\ ~HasKeys(json, CryptoWithdrawKeys) => Raised(ret)
            /\ Returned(ret)
                 => /\ \A k \in {"amount", "fee", "transaction_id"} : ret.val[k] = json[k]
                    /\ ret.val.recipient.address = json.recipient
                    /\ ret.val.recipient.destination_tag = json.destination_tag
    /\ op = "SuccessfulOrder.from_json"
         => /\ ~HasKeys(json, SuccessfulOrderKeys) => Raised(ret)
            /\ Returned(ret)
                 => /\ \A k \in SuccessfulOrderKeys \ {"side", "type", "time_in_force"} :
                          ret.val[k] = json[k]
                    /\ ret.val.side.name = json.side
                    /\ ret.val.type.name = json.type
                    /\ ret.val.time_in_force.name = json.time_in_force
    /\ op \in {"Account.from_json", "Wallet.from_json"}
         => /\ ~BalancesComplete(json) => Raised(ret)
            /\ Returned(ret)
                 => /\ ret.val.id = json.account_id
                    /\ WalletsPopulated(ret.val.wallets, json.balances)

C9_Witness ==
    /\ op = "Deposit.from_json"
    /\ DepositKeys \ DOMAIN json = {"fee_currency"}
    /\ Raised(ret)

----------------------------------------------------------------------------
(* Properties of the facade *)

BothFilters(request) ==
    /\ "ids" \in DOMAIN request.params
    /\ request.params.instrument_code /= None
    /\ request.params.ids /= <<>>

\* C10: close_all_orders given both an instrument_code and ids fails before
\* any request is issued: no request that carries both filters is ever sent.
C10_NeverBothFilters ==
    \A i \in DOMAIN http : ~BothFilters(http[i])

\* the response the last facade call got was not a 2xx one
NonSuccess == Returned(resp) /\ resp.val.status_code \notin 200..299

\* C11: a facade operation whose response has a non-2xx status fails with an
\* error carrying the status code and body (ApiError); it neither returns a
\* result nor fails in a deserializer that was handed the body.
C11_NonSuccessFails ==
    (op /= "none" /\ NonSuccess) => (Raised(ret) /\ ret.exc = "ApiError")

HistoryOps ==
    {"get_account_deposits", "get_account_deposits_from_bitpanda",
     "get_account_withdrawals", "get_account_withdrawals_from_bitpanda",
     "get_orders"}

\* C12: a facade call issues exactly one request, whether it succeeds or
\* fails, and a listing call sends the caller's cursor unchanged.
C12_OneRequestPerCall ==
    [][/\ Len(http') = Len(http) + 1
       /\ op' \in HistoryOps => http'[Len(http')].params.cursor = args'.cursor]_vars

C12_Witness ==
    /\ op = "get_account_deposits"
    /\ args.cursor = "cur1"
    /\ Len(http) = 1
    /\ Returned(ret)
    /\ resp.val.body.cursor = "cur2"

\* C13: create_order issues POST /account/orders with the order's serialized
\* map, close_all_orders issues DELETE /account/orders; neither issues a GET.
C13_OrderMethods ==
    /\ op = "create_order"
         => /\ http[Len(http)].method = "POST"
            /\ http[Len(http)].url = BASE_URL \o "/account/orders"
            /\ http[Len(http)].params = as_dict(args.order)
    /\ op = "close_all_orders"
         => /\ http[Len(http)].method = "DELETE"
            /\ http[Len(http)].url = BASE_URL \o "/account/orders"

\* C14: toggle_best_fee_collection issues its POST to /account/fees.
C14_ToggleFeesPath ==
    op = "toggle_best_fee_collection"
    => /\ http[Len(http)].method = "POST"
       /\ http[Len(http)].url = BASE_URL \o "/account/fees"

----------------------------------------------------------------------------
(* Properties of the wallets *)

\* C15: two wallets with the same id compare equal and have the same hash,
\* whatever their other fields; two wallets with different ids compare unequal.
C15_WalletIdentityById ==
    op \in {"Wallet.__eq__", "CryptoWallet.__eq__"}
    => /\ args.self.id = args.other.id
            => (ret.val.eq = True /\ ret.val.hash_self = ret.val.hash_other)
       /\ args.self.id /= args.other.id => ret.val.eq = False

C15_Witness ==
    /\ op = "Wallet.__eq__"
    /\ args.self.id = args.other.id
    /\ args.self.available /= args.other.available
    /\ args.self.currency_code /= args.other.currency_code
    /\ ret.val.eq = True

----------------------------------------------------------------------------
(* Further properties of the orders *)

UnsetTimeInForce ==
    op = "as_dict" /\ cls = "LimitOrder" /\ ~args.time_in_force_given

\* C16 as stated: a Limit order constructed without an explicit time_in_force
\* has time_in_force GoodTillCancelled and its map carries GOOD_TILL_CANCELLED.
C16_DefaultGoodTillCancelled ==
    UnsetTimeInForce
    => /\ order.time_in_force = GOOD_TILL_CANCELLED
       /\ "time_in_force" \in DOMAIN ret.val
       /\ ret.val.time_in_force = "GOOD_TILL_CANCELLED"

\* C16 amended: a Limit order constructed without an explicit time_in_force
\* has the placeholder time_in_force NONE and its map has no time_in_force key.
C16_DefaultUnset ==
    UnsetTimeInForce
    => /\ order.time_in_force = NONE
       /\ "time_in_force" \notin DOMAIN ret.val

C16_Witness ==
    /\ UnsetTimeInForce
    /\ DOMAIN ret.val = {"instrument_code", "type", "side", "amount", "price",
                         "is_post_only"}

\* C17: a Limit order with is_post_only true and time_in_force
\* ImmediateOrCancelled or FillOrKill fails to serialize: no map is produced.
C17_PostOnlyNeedsGoodTill ==
    (op = "as_dict" /\ cls = "LimitOrder" /\ order.is_post_only = True
     /\ order.time_in_force \in {IMMEDIATE_OR_CANCELLED, FILL_OR_KILL})
    => Raised(ret)

\* C18: every enum field present in a serialized map holds the wire string of
\* the order's member.
C18_EnumWireStrings ==
    op = "as_dict"
    => /\ ret.val.type \in TypeWire /\ ret.val.type = order.type.value
       /\ ret.val.side \in SideWire /\ ret.val.side = order.side.value
       /\ "time_in_force" \in DOMAIN ret.val
            => /\ ret.val.time_in_force \in TimeInForceWire
               /\ ret.val.time_in_force = order.time_in_force.value

C18_Witness ==
    /\ op = "as_dict"
    /\ order.time_in_force = FILL_OR_KILL
    /\ ret.val.time_in_force = "FILL_OR_KILL"
    /\ ret.val.side = "SELL"
    /\ ret.val.type = "STOP"

----------------------------------------------------------------------------
(* Further properties of the facade and of the deserializers *)

\* C19: no facade operation writes an instance's api_key: after any sequence
\* of calls on the instances each api_key is the one given at construction,
\* and a call's request is authorized with the key of its own instance.
C19_ApiKeyImmutable ==
    [][/\ api_key' = api_key
       /\ http'[Len(http')].headers["Authorization"] = "Bearer " \o api_key[args'.self]]_vars

C19_Witness ==
    /\ Len(http) = 2
    /\ api_key["account1"] /= api_key["account2"]
    /\ http[1].headers["Authorization"] = "Bearer " \o api_key["account1"]
    /\ http[2].headers["Authorization"] = "Bearer " \o api_key["account2"]

\* the first balances entry that carries the account_id id
FirstEntry(balances, id) ==
    balances[CHOOSE i \in DOMAIN balances :
                /\ balances[i].account_id = id
                /\ \A j \in 1..(i - 1) : balances[j].account_id /= id]

EntryIds(balances) == {balances[i].account_id : i \in DOMAIN balances}

\* C20: the wallet set of Account.from_json / Wallet.from_json holds exactly
\* one wallet per distinct account_id of the balances entries, and that wallet
\* is the first entry carrying the id.
C20_OneWalletPerAccountId ==
    (op \in {"Account.from_json", "Wallet.from_json"} /\ Returned(ret))
    => /\ Cardinality(ret.val.wallets) = Cardinality(EntryIds(json.balances))
       /\ \A w \in ret.val.wallets :
            LET e == FirstEntry(json.balances, w.id)
            IN  /\ w.currency_code = e.currency_code
                /\ w.available = e.available
                /\ w.change = e.change /\ w.locked = e.locked
                /\ w.sequence = e.sequence /\ w.time = e.time

C20_Witness ==
    /\ op = "Account.from_json"
    /\ Returned(ret)
    /\ Len(json.balances) = 2
    /\ json.balances[1].account_id = json.balances[2].account_id
    /\ json.balances[1].currency_code /= json.balances[2].currency_code
    /\ Cardinality(ret.val.wallets) = 1

----------------------------------------------------------------------------
\* C21: as_dict is read-only and repeatable: a call of as_dict leaves every
\* field of the order as it was, and a call that directly follows another
\* call of as_dict on the same order returns a map equal to the one before
C21_AsDictReadOnly ==
    [][op' = "as_dict" =>
         /\ order' = order
         /\ cls' = cls
         /\ (op = "as_dict" => ret' = ret)]_vars

\* as_dict was called twice on a LimitOrder that has a client_id
C21_Witness ==
    /\ op = "as_dict"
    /\ calls = 2
    /\ cls = "LimitOrder"
    /\ order.client_id /= None
    /\ "client_id" \in DOMAIN ret.val

----------------------------------------------------------------------------
(* Currencies *)

\* the two characters are the same letter in either case
SameLetter(a, b) ==
    \/ a = b
    \/ {a, b} \in {{"b", "B"}, {"c", "C"}, {"e", "E"}, {"r", "R"},
                   {"t", "T"}, {"u", "U"}}

\* the two codes differ at most in the case of their letters
SameCodeIgnoringCase(a, b) ==
    /\ Len(a) = Len(b)
    /\ \A i \in DOMAIN a : SameLetter(a[i], b[i])

\* the codes of CurrencyCodes written in capitals
UpperCaseCodes == {"BTC", "EUR", "C1"}

\* C22: the code of a currency is stored in upper case, and equality is by
\* code and kind: two currencies of the same kind whose codes differ only
\* in letter case are equal and hash equally; a CryptoCurrency and a
\* FiatCurrency of the same code are unequal; equal currencies hash equally
C22_CurrencyEquality ==
    op = "Currency.__eq__"
    => /\ args.self.code \in UpperCaseCodes
       /\ args.other.code \in UpperCaseCodes
       /\ (/\ SameCodeIgnoringCase(args.self_code, args.other_code)
           /\ args.self.type = args.other.type)
            => (ret.val.eq = True /\ ret.val.hash_self = ret.val.hash_other)
       /\ (/\ args.self.class = "CryptoCurrency"
           /\ args.other.class = "FiatCurrency"
           /\ args.self.code = args.other.code)
            => ret.val.eq = False
       /\ (/\ args.self.class = "FiatCurrency"
           /\ args.other.class = "CryptoCurrency"
           /\ args.self.code = args.other.code)
            => ret.val.eq = False
       /\ ret.val.eq = True => ret.val.hash_self = ret.val.hash_other

\* two CryptoCurrencies given codes of different case compared equal
C22_Witness ==
    /\ op = "Currency.__eq__"
    /\ args.self.class = "CryptoCurrency"
    /\ args.other.class = "CryptoCurrency"
    /\ args.self_code /= args.other_code
    /\ SameCodeIgnoringCase(args.self_code, args.other_code)
    /\ args.self.precision /= args.other.precision
    /\ ret.val.eq = True
    /\ ret.val.hash_self = ret.val.hash_other

====
